---- MODULE Spec2Model ----
(***************************************************************************)
(* Model of datatc.  Three specifications share this module:               *)
(*                                                                         *)
(* Spec      the directory tree (datatc/data_directory.py): a file system  *)
(*           under one data path, the in-memory DataDirectory tree built   *)
(*           by scanning it, and the operations select, latest, save, ls,  *)
(*           reload and the construction of a DataDirectory at a path;     *)
(* SadSpec   self-aware data (datatc/self_aware_data.py): SelfAwareData    *)
(*           objects and their transform sequences under the constructor,  *)
(*           load_from_path, transform, rerun and get_info;                *)
(* CodecSpec the registry of interface versions and the bundles that       *)
(*           SelfAwareDataInterface.save writes and load reads.            *)
(*                                                                         *)
(* Spec leaves the variables of self-aware data alone, and the other two    *)
(* leave those of the directory tree alone.                                 *)
(*                                                                         *)
(* Python strings are sequences of one-character strings, so that          *)
(* substring tests, splitting and lexicographic comparison are computed.   *)
(***************************************************************************)
EXTENDS Integers, Sequences, FiniteSets, TLC

VARIABLES
    fs,      \* the file system under the data path
    dd,      \* the DataDirectory tree the program holds for the data path
    last,    \* the last call: operation, receiver, arguments and outcome
    saved,   \* the number of saves that have written so far
    sequences, \* the TransformSequence objects: each one its list of steps
    sads,      \* the SelfAwareData objects: data and the sequence each one refers to
    disk,      \* the directories under the parent path bundles are saved to
    manager,   \* SADInterfaceVersionManager: version_map and latest_version
    call       \* the last call on self-aware data: operation, arguments and outcome

dir_vars == <<fs, dd, last, saved>>
sad_vars == <<sequences, sads, disk, manager, call>>
vars == <<fs, dd, last, saved, sequences, sads, disk, manager, call>>

----------------------------------------------------------------------------
(* Bounds *)

\* most saves that go through in one behaviour
MaxSaves == 2

----------------------------------------------------------------------------
(* Strings *)

\* the characters used, in code point order
CodeOrder == <<" ", "-", ".", "0", "1", "2", "3", "4", "5", "6", "7", "8", "9", "_",
               "a", "b", "c", "d", "e", "f", "g", "h", "i", "j", "k", "l", "m", "n",
               "o", "p", "q", "r", "s", "t", "u", "v", "w", "x", "y", "z">>

Ord(c) == CHOOSE i \in 1..Len(CodeOrder) : CodeOrder[i] = c

\* Python: s < t on str
StrLess(s, t) ==
    \/ /\ Len(s) < Len(t)
       /\ SubSeq(t, 1, Len(s)) = s
    \/ \E i \in 1..Len(s) :
          /\ i <= Len(t)
          /\ SubSeq(s, 1, i - 1) = SubSeq(t, 1, i - 1)
          /\ Ord(s[i]) < Ord(t[i])

\* Python: h in s
StrIn(h, s) == \E i \in 0..(Len(s) - Len(h)) : SubSeq(s, i + 1, i + Len(h)) = h

\* Python: s.find(sep), 0 when absent, else the 1-based index of the first occurrence
StrFind(s, sep) ==
    IF StrIn(sep, s)
    THEN CHOOSE i \in 1..Len(s) :
            /\ i + Len(sep) - 1 <= Len(s)
            /\ SubSeq(s, i, i + Len(sep) - 1) = sep
            /\ \A j \in 1..(i - 1) : SubSeq(s, j, j + Len(sep) - 1) # sep
    ELSE 0

RECURSIVE StrSplit(_, _)
\* Python: s.split(sep)
StrSplit(s, sep) ==
    LET i == StrFind(s, sep)
    IN  IF i = 0 THEN <<s>>
        ELSE <<SubSeq(s, 1, i - 1)>> \o StrSplit(SubSeq(s, i + Len(sep), Len(s)), sep)

\* Python: s.replace('.', '')
StripDots(s) == SelectSeq(s, LAMBDA c : c # ".")

\* Python: os.path.splitext(name)[1] for a name without separators
SplitExt(name) ==
    LET dots == {i \in 1..Len(name) : name[i] = "."}
    IN  IF dots = {} THEN <<>>
        ELSE LET dotIndex == CHOOSE i \in dots : \A j \in dots : j <= i
             IN  IF \E k \in 1..(dotIndex - 1) : name[k] # "."
                 THEN SubSeq(name, dotIndex, Len(name))
                 ELSE <<>>

\* Python: os.path.splitext(name)[0]
SplitRoot(name) == SubSeq(name, 1, Len(name) - Len(SplitExt(name)))

RECURSIVE Digits(_)
\* Python: '{}'.format(n) for n >= 0
Digits(n) ==
    IF n < 10 THEN <<CodeOrder[4 + n]>>
    ELSE Digits(n \div 10) \o <<CodeOrder[4 + (n % 10)]>>

s_empty == <<"e", "m", "p", "t", "y">>
s_mixed == <<"m", "i", "x", "e", "d">>
s_items == <<" ", "i", "t", "e", "m", "s">>
s_data == <<"d", "a", "t", "a">>
s_func == <<"f", "u", "n", "c">>
s_code == <<"c", "o", "d", "e">>
s_delim == <<"_", "_">>
s_marker == <<"t", "r", "a", "n", "s", "f", "o", "r", "m", "e", "d", "_",
              "d", "a", "t", "a", "_", "d", "i", "r">>

DIRS_TO_IGNORE == {<<"_", "_", "p", "y", "c", "a", "c", "h", "e", "_", "_">>}

registered_interfaces ==
    { <<"p", "k", "l">>, <<"d", "i", "l", "l">>, <<"c", "s", "v">>,
      <<"p", "a", "r", "q", "u", "e", "t">>, <<"x", "l", "s", "x">>,
      <<"t", "x", "t">>, <<"s", "q", "l">>, <<"p", "d", "f">>,
      <<"y", "a", "m", "l">>, <<"t", "e", "s", "t">> }

\* the interface that leaves the file system alone
TestingExt == <<"t", "e", "s", "t">>

----------------------------------------------------------------------------
(* The file system under the data path *)

n_top == <<"t", "o", "p">>
n_a_csv == <<"a", ".", "c", "s", "v">>
n_b_csv == <<"b", ".", "c", "s", "v">>
n_x_a == <<"x", ".", "a">>
n_c_test == <<"c", ".", "t", "e", "s", "t">>
n_d == <<"d">>
n_e == <<"e">>
n_data_csv == s_data \o <<".", "c", "s", "v">>
n_func_dill == s_func \o <<".", "d", "i", "l", "l">>
n_code_txt == s_code \o <<".", "t", "x", "t">>
n_bundle == s_marker \o s_delim \o <<"2", "0", "2", "0">> \o s_delim \o <<"h", "1">>
                \o s_delim \o <<"t", "g">>

RootPath == <<n_top>>

FsFile == [isdir |-> FALSE, entries |-> <<>>]

FsDir(names) == [isdir |-> TRUE, entries |-> [n \in names |-> FsFile]]

FsWith(dir, name, node) ==
    [isdir |-> TRUE,
     entries |-> [n \in (DOMAIN dir.entries) \cup {name} |->
                     IF n = name THEN node ELSE dir.entries[n]]]

RECURSIVE FsAt(_, _)
\* the entry at a path below the directory root, or a missing entry
FsAt(root, rel) ==
    IF rel = <<>> THEN [found |-> TRUE, node |-> root]
    ELSE IF root.isdir /\ Head(rel) \in DOMAIN root.entries
         THEN FsAt(root.entries[Head(rel)], Tail(rel))
         ELSE [found |-> FALSE, node |-> FsFile]

RECURSIVE FsPut(_, _, _)
\* the file system after creating or overwriting the regular file rel \o <<name>>
FsPut(root, rel, name) ==
    IF rel = <<>> THEN FsWith(root, name, FsFile)
    ELSE FsWith(root, Head(rel), FsPut(root.entries[Head(rel)], Tail(rel), name))

\* open(path, 'w') succeeds: the directory exists and the target is not a directory
CanWrite(root, rel, name) ==
    LET dir == FsAt(root, rel)
    IN  /\ dir.found
        /\ dir.node.isdir
        /\ (name \in DOMAIN dir.node.entries => ~dir.node.entries[name].isdir)

\* the leaves of the data path itself: none, one kind, two kinds
RootFiles == {{}, {n_a_csv}, {n_a_csv, <<"a", ".", "t", "x", "t">>}}

\* directories d: empty, with leaves, with a subdirectory e
SubDirs ==
    { FsDir({}), FsDir({n_x_a}), FsDir({n_a_csv, n_x_a}),
      FsWith(FsDir({}), n_e, FsDir({})),
      FsWith(FsDir({n_x_a}), n_e, FsDir({n_b_csv})) }

\* a well-formed bundle directory, and one that lacks its code file; one data path
\* has a directory d that holds a leaf, the directory e and a bundle side by side
BundleFiles == {n_data_csv, n_func_dill, n_code_txt}

InitialFileSystems ==
    LET plain == {FsDir(T) : T \in RootFiles}
        withD == plain \cup {FsWith(r, n_d, d) : r \in plain, d \in SubDirs}
    IN  withD \cup {FsWith(r, n_bundle, FsDir(BundleFiles)) : r \in plain}
              \cup {FsWith(FsDir({}), n_bundle, FsDir(BundleFiles \ {n_code_txt}))}
              \cup {FsWith(FsDir({n_a_csv}), n_d,
                        FsWith(FsWith(FsDir({n_x_a}), n_e, FsDir({n_b_csv})),
                               n_bundle, FsDir(BundleFiles)))}

----------------------------------------------------------------------------
(* Nodes of the in-memory tree.  contents is the dict of a node, a         *)
(* function from keys to nodes; the order of the dict is not kept, and     *)
(* where the code joins names in dict order the model keeps their set.     *)

EmptyDict == <<>>

\* Python: contents[k] = node
DictSet(contents, k, node) ==
    [x \in (DOMAIN contents) \cup {k} |-> IF x = k THEN node ELSE contents[x]]

\* os.path.basename of a path kept as its sequence of components
Basename(path) == path[Len(path)]

is_file(node) == node.cls = "DataFile"

DataFile_determine_data_type(name) ==
    LET ext == SplitExt(name)
    IN  IF ext # <<>> THEN StripDots(ext) ELSE <<"u", "n", "k", "n", "o", "w", "n">>

\* mutant: the kind of one child stands for all of them
_determine_data_type_any(contents) ==
    IF DOMAIN contents = {} THEN s_empty
    ELSE contents[CHOOSE f \in DOMAIN contents : TRUE].data_type

_determine_data_type(contents) ==
    LET unique_dir_data_types == {contents[f].data_type : f \in DOMAIN contents}
    IN  IF Cardinality(unique_dir_data_types) = 0 THEN s_empty
        ELSE IF Cardinality(unique_dir_data_types) > 1 THEN s_mixed
        ELSE CHOOSE t \in unique_dir_data_types : TRUE

\* the keys of a bundle's contents that contain file_name
_identify_file_from_contents(contents, file_name) ==
    {file \in DOMAIN contents : StrIn(file_name, file)}

\* TransformedDataDirectory._parse_transform_dir_name raises ValueError
_parse_fails(name) == Len(StrSplit(name, s_delim)) \notin {3, 4}

_parse_transform_dir_name(name) ==
    LET c == StrSplit(name, s_delim)
    IN  [time_stamp |-> c[2], git_hash |-> c[3], tag |-> IF Len(c) = 3 THEN <<>> ELSE c[4]]

NoParse == [time_stamp |-> <<>>, git_hash |-> <<>>, tag |-> <<>>]

DataFile(path) ==
    [cls |-> "DataFile", path |-> path, name |-> Basename(path),
     data_type |-> DataFile_determine_data_type(Basename(path)),
     contents |-> EmptyDict, parsed |-> NoParse]

DataDirectory(path, contents) ==
    [cls |-> "DataDirectory", path |-> path, name |-> Basename(path),
     data_type |-> _determine_data_type(contents),
     contents |-> contents, parsed |-> NoParse]

\* TransformedDataDirectory.__init__ raises ValueError on these contents
TransformedDataDirectory_fails(path, contents) ==
    \/ \E f \in {s_data, s_func, s_code} :
          Cardinality(_identify_file_from_contents(contents, f)) # 1
    \/ _parse_fails(Basename(path))

TransformedDataDirectory(path, contents) ==
    [cls |-> "TransformedDataDirectory", path |-> path, name |-> Basename(path),
     data_type |-> contents[CHOOSE f \in _identify_file_from_contents(contents, s_data) : TRUE].data_type,
     contents |-> contents, parsed |-> _parse_transform_dir_name(Basename(path))]

\* 'transformed_data_dir' in p, p the path joined by separators
IsTransformedPath(path) == \E i \in DOMAIN path : StrIn(s_marker, path[i])

\* the names glob(path/*) yields and the scan keeps
Scanned(dir) == {n \in DOMAIN dir.entries : n[1] # "." /\ n \notin DIRS_TO_IGNORE}

RECURSIVE ScanFails(_, _)
\* constructing the node of a file system entry raises
ScanFails(node, path) ==
    /\ node.isdir
    /\ \/ \E n \in Scanned(node) : ScanFails(node.entries[n], path \o <<n>>)
       \/ /\ IsTransformedPath(path)
          /\ TransformedDataDirectory_fails(path, [n \in Scanned(node) |-> FsFile])

RECURSIVE Scan(_, _)
\* the node the constructor builds at an existing path whose scan does not raise
Scan(node, path) ==
    IF ~node.isdir THEN DataFile(path)
    ELSE LET _characterize_dir == [n \in Scanned(node) |-> Scan(node.entries[n], path \o <<n>>)]
         IN  IF IsTransformedPath(path)
             THEN TransformedDataDirectory(path, _characterize_dir)
             ELSE DataDirectory(path, _characterize_dir)

\* the value of dd when the last construction raised
NoTree == [cls |-> "none", path |-> RootPath, name |-> n_top, data_type |-> <<>>,
           contents |-> EmptyDict, parsed |-> NoParse]

Built(root) == IF ScanFails(root, RootPath) THEN NoTree ELSE Scan(root, RootPath)

RECURSIVE NodeAt(_, _)
\* the node reached from a node by a sequence of keys (node[k1][k2]...)
NodeAt(node, keys) ==
    IF keys = <<>> THEN node
    ELSE NodeAt(node.contents[Head(keys)], Tail(keys))

RECURSIVE KeyPaths(_)
\* the key sequences that reach a node of the tree
KeyPaths(node) ==
    {<<>>} \cup UNION {{<<k>> \o p : p \in KeyPaths(node.contents[k])} : k \in DOMAIN node.contents}

RECURSIVE WithNodeAt(_, _, _)
\* the tree after the node at a key sequence was mutated into new
WithNodeAt(node, keys, new) ==
    IF keys = <<>> THEN new
    ELSE [node EXCEPT !.contents[Head(keys)] = WithNodeAt(@, Tail(keys), new)]

\* the folders (directories and bundles) of the tree, by key sequence
Folders == IF dd.cls = "none" THEN {} ELSE {p \in KeyPaths(dd) : ~is_file(NodeAt(dd, p))}

----------------------------------------------------------------------------
(* Results of calls *)

Returned(node) == [kind |-> "node", node |-> node, exc |-> "", names |-> {}]
ReturnedNone == [kind |-> "None", node |-> NoTree, exc |-> "", names |-> {}]
Raised(exc, names) == [kind |-> "raise", node |-> NoTree, exc |-> exc, names |-> names]

NoCall == [op |-> "init", at |-> <<>>, arg |-> <<>>, full |-> FALSE, ret |-> ReturnedNone,
           again |-> FALSE]

\* again: a select that repeats the call before it (same receiver and hint)
Call(op, at, arg, full, ret) ==
    [op |-> op, at |-> at, arg |-> arg, full |-> full, ret |-> ret,
     again |-> (op = "select" /\ last.op = op /\ last.at = at /\ last.arg = arg)]

Hints == {<<"a">>, <<"c", "s", "v">>, <<"z">>}

\* file names given to save: two that are written, one of an unregistered type
SaveNames == {n_b_csv, n_c_test, n_x_a}

\* file names given to save together with a transformer_func
TransformNames == {n_b_csv}

Names(contents, keys) == {contents[d].name : d \in keys}

\* mutant: a child matches when its name starts with the hint
select_result_prefix(contents, hint) ==
    LET matches == {d \in DOMAIN contents :
                      Len(hint) <= Len(contents[d].name)
                      /\ SubSeq(contents[d].name, 1, Len(hint)) = hint}
    IN  IF Cardinality(matches) = 1 THEN Returned(contents[CHOOSE d \in matches : TRUE])
        ELSE IF Cardinality(matches) = 0 THEN Raised("FileNotFoundError", {})
        ELSE Raised("ValueError", Names(contents, matches))

select_result(contents, hint) ==
    LET matches == {d \in DOMAIN contents : StrIn(hint, contents[d].name)}
        exact_matches == {d \in DOMAIN contents : hint = contents[d].data_type}
    IN  IF Cardinality(matches) = 1 THEN Returned(contents[CHOOSE d \in matches : TRUE])
        ELSE IF Cardinality(matches) = 0 THEN Raised("FileNotFoundError", {})
        ELSE IF Cardinality(exact_matches) = 1
             THEN Returned(contents[CHOOSE d \in exact_matches : TRUE])
        ELSE IF Cardinality(exact_matches) = 0 THEN Raised("ValueError", Names(contents, matches))
        ELSE Raised("ValueError", Names(contents, exact_matches))

\* mutant: the selected child is taken out of the contents
select_popping(p, hint) ==
    LET self == NodeAt(dd, p)
        ret == select_result(self.contents, hint)
    IN  /\ last' = Call("select", p, hint, FALSE, ret)
        /\ dd' = IF ret.kind = "node"
                 THEN WithNodeAt(dd, p,
                        [self EXCEPT !.contents =
                            [k \in {k \in DOMAIN self.contents : self.contents[k] # ret.node} |->
                                self.contents[k]]])
                 ELSE dd
        /\ UNCHANGED <<fs, saved, sad_vars>>

select(p, hint) ==
    /\ last' = Call("select", p, hint, FALSE, select_result(NodeAt(dd, p).contents, hint))
    /\ UNCHANGED <<fs, dd, saved, sad_vars>>

RECURSIVE Sorted(_)
\* Python: sorted(S) for a set of strings
Sorted(S) ==
    IF S = {} THEN <<>>
    ELSE LET m == CHOOSE x \in S : \A y \in S \ {x} : StrLess(x, y)
         IN  <<m>> \o Sorted(S \ {m})

\* mutant: the first of the sorted keys is taken
latest_result_first(contents) ==
    IF Cardinality(DOMAIN contents) = 0 THEN ReturnedNone
    ELSE Returned(contents[Sorted(DOMAIN contents)[1]])

latest_result(contents) ==
    IF Cardinality(DOMAIN contents) = 0 THEN ReturnedNone
    ELSE LET sorted_contents == Sorted(DOMAIN contents)
             latest_content == sorted_contents[Len(sorted_contents)]
         IN  Returned(contents[latest_content])

latest(p) ==
    /\ last' = Call("latest", p, <<>>, FALSE, latest_result(NodeAt(dd, p).contents))
    /\ UNCHANGED <<fs, dd, saved, sad_vars>>

\* DataInterfaceManager.parse_file_hint; raises when the hint has more than one dot
parse_file_hint_fails(file_hint) == StrIn(<<".">>, file_hint) /\ Len(StrSplit(file_hint, <<".">>)) # 2

parse_file_hint(file_hint) ==
    IF StrIn(<<".">>, file_hint) THEN StrSplit(file_hint, <<".">>)[2] ELSE file_hint

\* DataInterfaceManager.select(file_hint) with no default raises ValueError
DataInterfaceManager_select_fails(file_hint) ==
    \/ parse_file_hint_fails(file_hint)
    \/ parse_file_hint(file_hint) \notin registered_interfaces

\* DataInterfaceBase.construct_file_path: the name of the file written
construct_file_path(file_name, file_extension) ==
    IF SplitExt(file_name) = <<>> THEN file_name \o <<".">> \o file_extension ELSE file_name

\* mutant: the node is registered under the name without its extension
save_file_key_root(file_name) == SplitRoot(file_name)

\* the key under which save_file registers the new node
save_file_key(file_name) == file_name

\* DataDirectory.save without a transformer_func.  The interface of the file type
\* writes the file (the testing interface writes nothing), then the new DataFile is
\* put into self.contents; data_type is not touched.
save_file(p, file_name) ==
    LET self == NodeAt(dd, p)
        ext == parse_file_hint(file_name)
        written == construct_file_path(file_name, ext)
        rel == Tail(self.path)
    IN  /\ saved < MaxSaves
        /\ IF DataInterfaceManager_select_fails(file_name)
           THEN /\ last' = Call("save_file", p, file_name, FALSE, Raised("ValueError", {}))
                /\ UNCHANGED <<fs, dd, saved, sad_vars>>
           ELSE IF ext # TestingExt /\ ~CanWrite(fs, rel, written)
           THEN /\ last' = Call("save_file", p, file_name, FALSE, Raised("OSError", {}))
                /\ UNCHANGED <<fs, dd, saved, sad_vars>>
           ELSE /\ fs' = IF ext = TestingExt THEN fs ELSE FsPut(fs, rel, written)
                /\ dd' = WithNodeAt(dd, p,
                            [self EXCEPT !.contents =
                                DictSet(@, save_file_key(file_name),
                                        DataFile(self.path \o <<file_name>>))])
                /\ saved' = saved + 1
                /\ last' = Call("save_file", p, file_name, FALSE, ReturnedNone)
                /\ UNCHANGED sad_vars

\* the parameters of DataDirectory.save, which TransformedDataDirectory.save resolves to
save_parameters == <<"self", "data", "file_name", "transformer_func", "enforce_clean_git">>

\* Python call binding raises TypeError: too many positionals, or an unknown or doubly bound keyword
BindFails(parameters, positional, keywords) ==
    \/ positional > Len(parameters)
    \/ \E k \in keywords : \A i \in (positional + 1)..Len(parameters) : parameters[i] # k

\* DataDirectory.save with a transformer_func: transform_and_save calls
\* TransformedDataDirectory.save(data, transformer_func, tag, data_file_type,
\*                               parent_path=..., enforce_clean_git=...)
transform_and_save(p, file_name) ==
    /\ saved < MaxSaves
    /\ BindFails(save_parameters, 4, {"parent_path", "enforce_clean_git"})
    /\ last' = Call("transform_and_save", p, file_name, FALSE, Raised("TypeError", {}))
    /\ UNCHANGED <<fs, dd, saved, sad_vars>>

----------------------------------------------------------------------------
(* ls: the summary tree.  An item is a string or a dict {name: [items]}.   *)

LsStr(text) == [kind |-> "str", text |-> text, items |-> <<>>]
LsDict(name, items) == [kind |-> "dict", text |-> name, items |-> items]

\* mutant: the nodes are sorted by name in descending order
SortedByName_descending(contents, keys) ==
    LET names == Sorted({contents[k].name : k \in keys})
    IN  [i \in 1..Len(names) |->
            CHOOSE k \in keys : contents[k].name = names[Len(names) + 1 - i]]

\* Python: sorted(nodes, key=lambda k: k.name), as the keys of the nodes
SortedByName(contents, keys) ==
    LET names == Sorted({contents[k].name : k \in keys})
    IN  [i \in 1..Len(names) |-> CHOOSE k \in keys : contents[k].name = names[i]]

\* Python: '{} {} items'.format(n, data_type)
ItemsSummary(n, data_type) == Digits(n) \o <<" ">> \o data_type \o s_items

\* Python: '{}.{}'.format(tag, data_type)
ls_description(node) == node.parsed.tag \o <<".">> \o node.data_type

\* mutant: the full flag is left out of the test
lists_contents_without_full(contains_subdirs, full, top_dir) ==
    contains_subdirs \/ (top_dir /\ ~contains_subdirs)

\* the contents are listed one by one rather than summarised
lists_contents(contains_subdirs, full, top_dir) ==
    contains_subdirs \/ full \/ (top_dir /\ ~contains_subdirs)

RECURSIVE _build_ls_tree(_, _, _)
_build_ls_tree(self, full, top_dir) ==
    IF self.cls = "TransformedDataDirectory" THEN LsDict(ls_description(self), <<>>)
    ELSE IF Cardinality(DOMAIN self.contents) > 0
    THEN LET contains_subdirs == \E c \in DOMAIN self.contents : ~is_file(self.contents[c])
         IN  IF lists_contents(contains_subdirs, full, top_dir)
             THEN LET dirs_sorted == SortedByName(self.contents,
                                        {c \in DOMAIN self.contents : ~is_file(self.contents[c])})
                      files_sorted == SortedByName(self.contents,
                                        {c \in DOMAIN self.contents : is_file(self.contents[c])})
                  IN  LsDict(self.name,
                        [i \in 1..Len(dirs_sorted) |->
                            _build_ls_tree(self.contents[dirs_sorted[i]], full, FALSE)]
                        \o [i \in 1..Len(files_sorted) |->
                            LsStr(self.contents[files_sorted[i]].name)])
             ELSE LsDict(self.name,
                    <<LsStr(ItemsSummary(Cardinality(DOMAIN self.contents), self.data_type))>>)
    ELSE LsDict(self.name, <<>>)

LsReturned(tree) == [kind |-> "ls", node |-> NoTree, exc |-> "", names |-> {}, tree |-> tree]

ls(p, full) ==
    /\ last' = Call("ls", p, <<>>, full, LsReturned(_build_ls_tree(NodeAt(dd, p), full, TRUE)))
    /\ UNCHANGED <<fs, dd, saved, sad_vars>>

\* DataManager.reload: the tree is built again from the data path
reload ==
    /\ dd' = Built(fs)
    /\ last' = Call("reload", <<>>, <<>>, FALSE, ReturnedNone)
    /\ UNCHANGED <<fs, saved, sad_vars>>

\* DataDirectory(path) for a path under the data path.  glob yields nothing for a path
\* that is missing or is a file, and the node is a DataDirectory whatever its path
build(rel) ==
    LET at == FsAt(fs, rel)
        path == RootPath \o rel
        entry == IF at.found /\ at.node.isdir THEN at.node ELSE FsDir({})
    IN  /\ last' = Call("build", <<>>, rel, FALSE,
                        IF \E n \in Scanned(entry) : ScanFails(entry.entries[n], path \o <<n>>)
                        THEN Raised("ValueError", {})
                        ELSE Returned(DataDirectory(path,
                                [n \in Scanned(entry) |-> Scan(entry.entries[n], path \o <<n>>)])))
        /\ UNCHANGED <<fs, dd, saved, sad_vars>>

Init ==
    /\ fs \in InitialFileSystems
    /\ dd = Built(fs)
    /\ last = NoCall
    /\ saved = 0
    /\ sequences = <<>>
    /\ sads = <<>>
    /\ disk = <<>>
    /\ manager = <<>>
    /\ call = <<>>

Next ==
    \/ \E p \in Folders, hint \in Hints : select(p, hint)
    \/ \E p \in Folders : latest(p)
    \/ \E p \in Folders, file_name \in SaveNames : save_file(p, file_name)
    \/ \E p \in Folders, file_name \in TransformNames : transform_and_save(p, file_name)
    \/ \E p \in Folders, full \in BOOLEAN : ls(p, full)
    \/ reload
    \/ \E rel \in {<<n_d>>, <<n_a_csv>>, <<<<"z">>>>} : build(rel)

Spec == Init /\ [][Next]_vars

----------------------------------------------------------------------------
(* Properties *)

Children(node) == {node.contents[k] : k \in DOMAIN node.contents}

\* the folders of the tree: nodes of class DataDirectory
FolderNodes ==
    IF dd.cls = "none" THEN {}
    ELSE {NodeAt(dd, p) : p \in {q \in KeyPaths(dd) : NodeAt(dd, q).cls = "DataDirectory"}}

\* the kind a folder's children give it
KindDerivable(node) ==
    /\ Children(node) = {} => node.data_type = s_empty
    /\ \A c \in Children(node) :
          (\A e \in Children(node) : e.data_type = c.data_type) => node.data_type = c.data_type
    /\ (\E c, e \in Children(node) : c.data_type # e.data_type) => node.data_type = s_mixed

Constructed == last.op \in {"init", "reload"}

\* C1: every Folder node a construction builds has kind "empty" without children, the
\* children's common kind when they all agree, and "mixed" when two of them differ.
C1_FolderKindAtConstruction == Constructed => \A node \in FolderNodes : KindDerivable(node)

C1_Witness ==
    /\ Constructed
    /\ \E node \in FolderNodes :
          /\ node.data_type = s_mixed
          /\ \E c, e \in Children(node) : c.data_type # e.data_type
    /\ \E node \in FolderNodes : Children(node) # {} /\ node.data_type \notin {s_mixed, s_empty}

\* C2: in every reachable state, also after saves, each Folder's kind is the kind its
\* current children give it.
C2_KindInStepWithContents == \A node \in FolderNodes : KindDerivable(node)

\* the receiver of the last call and the children whose name contains the hint
Self == NodeAt(dd, last.at)
Matching == {c \in Children(Self) : StrIn(last.arg, c.name)}

\* C3: select returns the one child whose name contains the hint when there is exactly
\* one, and raises FileNotFoundError, returning no node, when there is none.
C3_SelectOneOrNone ==
    last.op = "select" =>
        /\ Cardinality(Matching) = 1 => last.ret.kind = "node" /\ last.ret.node \in Matching
        /\ Matching = {} => last.ret.kind = "raise" /\ last.ret.exc = "FileNotFoundError"

C3_Witness ==
    /\ last.op = "select"
    /\ Cardinality(Children(Self)) > 1
    /\ Cardinality(Matching) = 1
    /\ last.ret.kind = "node"

\* C4: with more than one child name containing the hint, select narrows those children
\* to the ones whose kind equals the hint: one left is returned, otherwise ValueError
\* names candidates among them; every node select returns has a name containing the hint.
C4_SelectNarrowsMatches ==
    last.op = "select" =>
        /\ Cardinality(Matching) > 1 =>
              LET narrowed == {c \in Matching : c.data_type = last.arg}
              IN  IF Cardinality(narrowed) = 1
                  THEN last.ret.kind = "node" /\ last.ret.node \in narrowed
                  ELSE /\ last.ret.kind = "raise"
                       /\ last.ret.exc = "ValueError"
                       /\ last.ret.names = {c.name : c \in (IF narrowed = {} THEN Matching ELSE narrowed)}
        /\ last.ret.kind = "node" => last.ret.node \in Matching

\* C5: select changes neither the tree nor the file system, and a select that repeats
\* the select before it has the same outcome.
C5_SelectIdempotent ==
    [][last'.op = "select" =>
          /\ dd' = dd
          /\ fs' = fs
          /\ last'.again => last'.ret = last.ret]_vars

C5_Witness ==
    /\ last.op = "select"
    /\ last.again
    /\ last.ret.kind = "node"

\* C6: latest returns the child whose name is greatest in lexicographic order, and
\* None when the folder has no children.
C6_LatestIsGreatest ==
    last.op = "latest" =>
        IF Children(Self) = {} THEN last.ret.kind = "None"
        ELSE /\ last.ret.kind = "node"
             /\ last.ret.node \in Children(Self)
             /\ \A c \in Children(Self) : ~StrLess(last.ret.node.name, c.name)

C6_Witness ==
    /\ last.op = "latest"
    /\ last.ret.kind = "node"
    /\ Cardinality(Children(Self)) > 1

SaveWent == last'.op = "save_file" /\ last'.ret.kind = "None"

\* the effect of a save on the receiver's contents, but for the number of entries
SaveRegisters ==
    LET before == NodeAt(dd, last'.at)
        after == NodeAt(dd', last'.at)
    IN  /\ DOMAIN after.contents = (DOMAIN before.contents) \cup {last'.arg}
        /\ after.contents[last'.arg] = DataFile(before.path \o <<last'.arg>>)
        /\ \A k \in (DOMAIN before.contents) \ {last'.arg} : after.contents[k] = before.contents[k]

\* C7 as stated: a save without transformer adds exactly one entry, a Leaf for folder/name
\* under the key name, and leaves every other entry as it was.
C7_SaveAddsOneEntry ==
    [][SaveWent =>
          /\ SaveRegisters
          /\ Cardinality(DOMAIN NodeAt(dd', last'.at).contents)
                = Cardinality(DOMAIN NodeAt(dd, last'.at).contents) + 1]_vars

\* C7 amended: after a save without transformer the contents hold a Leaf for folder/name
\* under the key name, added when the key is new and put in place of the entry of that
\* key otherwise; every other entry is as it was, whatever the directory holds.
C7_SaveSetsOneEntry == [][SaveWent => SaveRegisters]_vars

\* a save went through on a folder that holds an entry the directory does not have
C7_Witness ==
    /\ last.op = "save_file"
    /\ last.ret.kind = "None"
    /\ Self.cls = "DataDirectory"
    /\ \E k \in DOMAIN Self.contents :
          /\ k # last.arg
          /\ k \notin DOMAIN FsAt(fs, Tail(Self.path)).node.entries

\* C8: after a save with a transformer under file name N, the contents hold a bundle
\* node under the key N.
C8_BundleRegisteredUnderFileName ==
    last.op = "transform_and_save" =>
        /\ last.arg \in DOMAIN Self.contents
        /\ Self.contents[last.arg].cls = "TransformedDataDirectory"

Items(tree) == {tree.items[i] : i \in DOMAIN tree.items}

\* the kind the children of a folder with children share, "mixed" when they do not
SharedKind(node) ==
    IF \E c, e \in Children(node) : c.data_type # e.data_type THEN s_mixed
    ELSE (CHOOSE c \in Children(node) : TRUE).data_type

RECURSIVE C9_Renders(_, _, _)
\* tree is the listing without full of a folder, as C9 describes it
C9_Renders(node, tree, top) ==
    /\ tree.kind = "dict"
    /\ tree.text = node.name
    /\ IF \A c \in Children(node) : is_file(c)
       THEN IF Children(node) = {} THEN tree.items = <<>>
            ELSE IF top
                 THEN /\ Len(tree.items) = Cardinality(Children(node))
                      /\ Items(tree) = {LsStr(c.name) : c \in Children(node)}
                 ELSE tree.items =
                        <<LsStr(Digits(Cardinality(Children(node))) \o <<" ">>
                                    \o SharedKind(node) \o s_items)>>
       ELSE \A c \in Children(node) :
               c.cls = "DataDirectory" => \E t \in Items(tree) : C9_Renders(c, t, FALSE)

\* C9: without full, a folder of leaves only is rendered as '<count> <kind> items', kind
\* the kind its leaves share or "mixed", when it is not the listed folder, and as its
\* leaf names when it is; an empty folder is rendered without entries either way.
C9_LeafFoldersSummarised ==
    (last.op = "ls" /\ ~last.full /\ Self.cls = "DataDirectory")
        => C9_Renders(Self, last.ret.tree, TRUE)

RECURSIVE C10_ListsEveryLeaf(_, _)
\* tree names every leaf below node, whatever the nodes in between, and has no summary
C10_ListsEveryLeaf(node, tree) ==
    /\ \A t \in Items(tree) :
          t.kind = "str" => \E c \in Children(node) : is_file(c) /\ t.text = c.name
    /\ \A c \in Children(node) :
          IF is_file(c) THEN LsStr(c.name) \in Items(tree)
          ELSE \E t \in Items(tree) : t.kind = "dict" /\ C10_ListsEveryLeaf(c, t)

\* C10 as stated: with full, the name of every Leaf reachable from the listed node is in
\* the listing, whatever the nodes above it, and there is no count summary.
C10_FullListsEveryLeaf ==
    (last.op = "ls" /\ last.full) => C10_ListsEveryLeaf(Self, last.ret.tree)

RECURSIVE C10_ListsFolderLeaves(_, _)
\* tree names every leaf below node that only folders lie above; a bundle is one entry
C10_ListsFolderLeaves(node, tree) ==
    IF node.cls = "TransformedDataDirectory"
    THEN tree = LsDict(node.parsed.tag \o <<".">> \o node.data_type, <<>>)
    ELSE /\ tree.kind = "dict"
         /\ tree.text = node.name
         /\ \A t \in Items(tree) :
               t.kind = "str" => \E c \in Children(node) : is_file(c) /\ t.text = c.name
         /\ \A c \in Children(node) :
               IF is_file(c) THEN LsStr(c.name) \in Items(tree)
               ELSE \E t \in Items(tree) : C10_ListsFolderLeaves(c, t)

\* C10 amended: with full, the name of every Leaf reachable from the listed node through
\* Folder nodes only is in the listing and there is no count summary; a bundle is
\* rendered as the single entry '<tag>.<kind>' and the files in it are not listed.
C10_FullListsLeavesOfFolders ==
    (last.op = "ls" /\ last.full) => C10_ListsFolderLeaves(Self, last.ret.tree)

\* a full listing of a folder that has a folder of leaves below it
C10_Witness ==
    /\ last.op = "ls"
    /\ last.full
    /\ last.at = <<>>
    /\ \E c \in Children(Self) :
          /\ c.cls = "DataDirectory"
          /\ Children(c) # {}
          /\ \A e \in Children(c) : is_file(e)

\* the non-leaf children and the leaf children of a node
Dirs(node) == {c \in Children(node) : ~is_file(c)}
Files(node) == {c \in Children(node) : is_file(c)}

\* the position of a child among the children in S, in ascending order of name
Rank(c, S) == 1 + Cardinality({e \in S : StrLess(e.name, c.name)})

RECURSIVE C11_Expands(_, _)
\* tree is the entry of a folder with a subfolder as C11 describes it: one entry per
\* child, the non-leaf children first and the leaf names after them, each group in
\* ascending order of name, and every subfolder with a subfolder rendered the same way
C11_Expands(node, tree) ==
    /\ tree.kind = "dict"
    /\ tree.text = node.name
    /\ Len(tree.items) = Cardinality(Children(node))
    /\ \A c \in Dirs(node) :
          LET t == tree.items[Rank(c, Dirs(node))]
          IN  /\ t.kind = "dict"
              /\ c.cls = "DataDirectory" => t.text = c.name
              /\ (c.cls = "DataDirectory" /\ Dirs(c) # {}) => C11_Expands(c, t)
    /\ \A c \in Files(node) :
          tree.items[Cardinality(Dirs(node)) + Rank(c, Files(node))] = LsStr(c.name)

\* C11: without full, the entry of a folder that has at least one subfolder, the listed
\* folder or one below it, holds its non-leaf children in ascending order of name and
\* then the names of its leaves in ascending order of name, and no count summary.
C11_SubfoldersExpanded ==
    (last.op = "ls" /\ ~last.full /\ Self.cls = "DataDirectory" /\ Dirs(Self) # {})
        => C11_Expands(Self, last.ret.tree)

\* a listing without full whose folder holds two leaves and a folder that in turn
\* holds two non-leaf children and a leaf
C11_Witness ==
    /\ last.op = "ls"
    /\ ~last.full
    /\ last.at = <<>>
    /\ Cardinality(Files(Self)) > 1
    /\ \E c \in Dirs(Self) :
          /\ c.cls = "DataDirectory"
          /\ Cardinality(Dirs(c)) > 1
          /\ Files(c) # {}


----------------------------------------------------------------------------
(* Self-aware data (datatc/self_aware_data.py).                            *)
(*                                                                         *)
(* A SelfAwareData object holds its data and a reference to a              *)
(* TransformSequence object; sequences are kept apart from the objects     *)
(* that refer to them, so that two objects sharing one sequence would see  *)
(* each other's appends.  Data are integers, and the callables given to    *)
(* transform compute a new value from their argument.                      *)

\* most SelfAwareData objects made in one behaviour
MaxObjects == 3

None == "None"

s_no_git_hash == <<"n", "o", "_", "g", "i", "t", "_", "h", "a", "s", "h">>
s_h1 == <<"h", "1">>
t_clean == <<"c", "l", "e", "a", "n">>
t_aggregate == <<"a", "g", "g", "r", "e", "g", "a", "t", "e">>

\* the data given to rerun, and the data wrapped by the constructor
Data == {1, 2}
InitialData == {1}

\* the callables given to transform: the two of the tests and one that adds one
Funcs == {"transform_func", "transform_func_with_kwarg", "increment"}

Tags == {t_clean, t_aggregate}

\* Python: {} as **kwargs
NoKwargs == [k \in {} |-> 0]

Kwargs == {NoKwargs, [factor |-> 3]}

\* the keyword parameters of a callable, none of them with a default
keyword_parameters(func) == IF func = "transform_func_with_kwarg" THEN {"factor"} ELSE {}

\* Python: func(data, **kwargs) raises TypeError on a missing or an unexpected keyword
CallFails(func, kwargs) == DOMAIN kwargs # keyword_parameters(func)

\* Python: func(data, **kwargs) when the call binds
CallResult(func, data, kwargs) ==
    CASE func = "transform_func" -> data * 2
      [] func = "transform_func_with_kwarg" -> data * kwargs.factor
      [] func = "increment" -> data + 1

\* inspect.getsource(func): the text of the callable
getsource(func) ==
    CASE func = "transform_func" -> <<"d", "e", "f", " ", "t">>
      [] func = "transform_func_with_kwarg" -> <<"d", "e", "f", " ", "k">>
      [] func = "increment" -> <<"d", "e", "f", " ", "i">>

\* the seconds of the clock at which calls are made
Times == {0, 1}

\* datetime.now().strftime('%Y-%m-%d_%H-%M-%S')
generate_timestamp(now) ==
    <<"2", "0", "2", "0", "-", "0", "1", "-", "0", "1", "_",
      "0", "0", "-", "0", "0", "-", "0">> \o Digits(now)

LiveTransformStep(metadata, transformer_func) ==
    [cls |-> "LiveTransformStep", metadata |-> metadata, transformer_func |-> transformer_func]

\* LiveTransformStep.__init__ raises ValueError
LiveTransformStep_fails(transformer_func) == transformer_func = None

\* a StaticTransformStep has no attribute transformer_func
StaticTransformStep(metadata) == [cls |-> "StaticTransformStep", metadata |-> metadata]

\* TransformStep.get_git_hash raises: with enforce_clean_git, RuntimeError for a callable
\* outside a repository, and inside one check_for_uncommitted_git_changes_at_path,
\* which uses os without importing it, raises NameError
get_git_hash_raises(in_repo, enforce_clean_git) ==
    IF ~enforce_clean_git THEN None
    ELSE IF in_repo THEN "NameError" ELSE "RuntimeError"

get_git_hash(in_repo) == IF in_repo THEN s_h1 ELSE s_no_git_hash

\* mutant: the keywords of the call are not recorded
TransformStep_execute_without_kwargs(data, transformer_func, tag, enforce_clean_git, in_repo, now, kwargs) ==
    LET metadata == [timestamp |-> generate_timestamp(now),
                     code |-> getsource(transformer_func),
                     git_hash |-> get_git_hash(in_repo),
                     kwargs |-> NoKwargs,
                     tag |-> tag]
    IN  IF get_git_hash_raises(in_repo, enforce_clean_git) # None
        THEN [exc |-> get_git_hash_raises(in_repo, enforce_clean_git)]
        ELSE IF CallFails(transformer_func, kwargs) THEN [exc |-> "TypeError"]
        ELSE [exc |-> None,
              data |-> CallResult(transformer_func, data, kwargs),
              step |-> LiveTransformStep(metadata, transformer_func)]

\* TransformStep.execute: the exception it raises (None when it returns), the data and
\* the step it returns
TransformStep_execute(data, transformer_func, tag, enforce_clean_git, in_repo, now, kwargs) ==
    LET metadata == [timestamp |-> generate_timestamp(now),
                     code |-> getsource(transformer_func),
                     git_hash |-> get_git_hash(in_repo),
                     kwargs |-> kwargs,
                     tag |-> tag]
    IN  IF get_git_hash_raises(in_repo, enforce_clean_git) # None
        THEN [exc |-> get_git_hash_raises(in_repo, enforce_clean_git)]
        ELSE IF CallFails(transformer_func, kwargs) THEN [exc |-> "TypeError"]
        ELSE [exc |-> None,
              data |-> CallResult(transformer_func, data, kwargs),
              step |-> LiveTransformStep(metadata, transformer_func)]

\* outcomes of calls
SadReturned(sad) == [kind |-> "sad", sad |-> sad]
SadValue(data) == [kind |-> "value", data |-> data]
SadInfo(info) == [kind |-> "info", info |-> info]
\* named: what the message of the exception names
SadRaisedNaming(exc, named) == [kind |-> "raise", exc |-> exc, named |-> named]
SadRaised(exc) == SadRaisedNaming(exc, [k \in {} |-> 0])

SadCall(op, args, ret) == [op |-> op, args |-> args, ret |-> ret]

\* what the constructor is given as metadata: nothing, a list of dicts, or a
\* TransformSequence made of a list of dicts
StaticMetadata ==
    [timestamp |-> generate_timestamp(0), code |-> getsource("increment"),
     git_hash |-> s_h1, kwargs |-> NoKwargs, tag |-> t_clean]

MetadataArgs ==
    { [type |-> None], [type |-> "list", sequence |-> <<StaticMetadata>>],
      [type |-> "TransformSequence", sequence |-> <<StaticMetadata>>] }

\* TransformSequence.build_from_metadata: a static step for each dict
build_from_metadata(metadata) == [i \in 1..Len(metadata) |-> StaticTransformStep(metadata[i])]

\* SelfAwareData._load_transform_seq_from_metadata raises ValueError: the metadata is
\* neither None nor a TransformSequence (a list never equals typing.List)
_load_transform_seq_from_metadata_fails(metadata) ==
    metadata.type \notin {None, "TransformSequence"}

\* SelfAwareData(data, metadata)
SelfAwareData(data, metadata) ==
    IF _load_transform_seq_from_metadata_fails(metadata)
    THEN /\ call' = SadCall("SelfAwareData", [data |-> data, metadata |-> metadata],
                            SadRaised("ValueError"))
         /\ UNCHANGED <<sequences, sads, disk, manager, dir_vars>>
    ELSE /\ Len(sads) < MaxObjects
         /\ sequences' = Append(sequences,
                            IF metadata.type = None THEN <<>>
                            ELSE build_from_metadata(metadata.sequence))
         /\ sads' = Append(sads, [data |-> data, transform_sequence |-> Len(sequences) + 1])
         /\ call' = SadCall("SelfAwareData", [data |-> data, metadata |-> metadata],
                            SadReturned(Len(sads) + 1))
         /\ UNCHANGED <<disk, manager, dir_vars>>

\* the chain of an object: its data and the steps of the sequence it refers to
Chain(objects, heap, s) ==
    [data |-> objects[s].data, steps |-> heap[objects[s].transform_sequence]]

\* mutant: the copy is the sequence itself
deepcopy_alias(heap, ref) == [heap |-> heap, ref |-> ref]

\* copy.deepcopy of a TransformSequence: a new object with the same steps
deepcopy(heap, ref) == [heap |-> Append(heap, heap[ref]), ref |-> Len(heap) + 1]

\* SelfAwareData.transform: execute the step, then _copy_and_extend.  in_repo and
\* uncommitted are the state of git where the callable is defined: whether it is in a
\* repository, and whether that repository has uncommitted changes
transform(s, transformer_func, tag, enforce_clean_git, in_repo, uncommitted, now, kwargs) ==
    LET self == sads[s]
        args == [sad |-> s, transformer_func |-> transformer_func, tag |-> tag,
                 kwargs |-> kwargs, enforce_clean_git |-> enforce_clean_git,
                 in_repo |-> in_repo, uncommitted |-> uncommitted]
        executed == TransformStep_execute(self.data, transformer_func, tag,
                                          enforce_clean_git, in_repo, now, kwargs)
        copied == deepcopy(sequences, self.transform_sequence)
    IN  IF executed.exc # None
        THEN /\ call' = SadCall("transform", args, SadRaised(executed.exc))
             /\ UNCHANGED <<sequences, sads, disk, manager, dir_vars>>
        ELSE /\ Len(sads) < MaxObjects
             /\ sequences' = [copied.heap EXCEPT ![copied.ref] = Append(@, executed.step)]
             /\ sads' = Append(sads, [data |-> executed.data,
                                      transform_sequence |-> copied.ref])
             /\ call' = SadCall("transform", args, SadReturned(Len(sads) + 1))
             /\ UNCHANGED <<disk, manager, dir_vars>>

\* mutant: a step is run again without its keywords
step_kwargs_none(step) == NoKwargs

\* step.kwargs: metadata.get('kwargs', {})
step_kwargs(step) == IF "kwargs" \in DOMAIN step.metadata THEN step.metadata.kwargs ELSE NoKwargs

RECURSIVE rerun_steps(_, _)
\* the loop of TransformSequence.rerun over the live steps
rerun_steps(live_steps, transformed_data) ==
    IF live_steps = <<>> THEN SadValue(transformed_data)
    ELSE LET step == Head(live_steps)
         IN  IF CallFails(step.transformer_func, step_kwargs(step)) THEN SadRaised("TypeError")
             ELSE rerun_steps(Tail(live_steps),
                              CallResult(step.transformer_func, transformed_data,
                                         step_kwargs(step)))

\* mutant: a sequence without live steps hands the data back
TransformSequence_rerun_unchecked(sequence, data) ==
    rerun_steps(SelectSeq(sequence, LAMBDA step : step.cls = "LiveTransformStep"), data)

TransformSequence_rerun(sequence, data) ==
    LET live_steps == SelectSeq(sequence, LAMBDA step : step.cls = "LiveTransformStep")
    IN  IF Len(live_steps) = 0 THEN SadRaised("RuntimeError")
        ELSE rerun_steps(live_steps, data)

rerun(s, data) ==
    /\ call' = SadCall("rerun", [sad |-> s, data |-> data],
                       TransformSequence_rerun(sequences[sads[s].transform_sequence], data))
    /\ UNCHANGED <<sequences, sads, disk, manager, dir_vars>>

\* TransformSequence.get_info: the metadata of each step, in order
TransformSequence_get_info(sequence) == [i \in 1..Len(sequence) |-> sequence[i].metadata]

get_info(s) ==
    /\ call' = SadCall("get_info", [sad |-> s],
                       SadInfo(TransformSequence_get_info(sequences[sads[s].transform_sequence])))
    /\ UNCHANGED <<sequences, sads, disk, manager, dir_vars>>

\* SelfAwareData.load_from_path(file_path): the interface of the file type loads the
\* file, then the constructor is given the dict {'file_path': file_path} as metadata,
\* which is neither None nor a TransformSequence
load_from_path(file_path) ==
    LET metadata == [type |-> "dict", file_path |-> file_path]
    IN  /\ DataInterfaceManager_select_fails(file_path)
           \/ _load_transform_seq_from_metadata_fails(metadata)
        /\ call' = SadCall("load_from_path", [file_path |-> file_path], SadRaised("ValueError"))
        /\ UNCHANGED <<sequences, sads, disk, manager, dir_vars>>

\* the transform calls made: each callable with the keywords it takes, under either
\* tag, without enforce_clean_git; two calls whose keywords do not fit the callable;
\* and calls with and without enforce_clean_git of a callable inside a repository
\* without and with uncommitted changes, and outside a repository
TransformCall(transformer_func, tag, kwargs, enforce_clean_git, in_repo) ==
    [transformer_func |-> transformer_func, tag |-> tag, kwargs |-> kwargs,
     enforce_clean_git |-> enforce_clean_git, in_repo |-> in_repo, uncommitted |-> FALSE,
     now |-> 0]

TransformCalls ==
    {TransformCall(c[1], c[2], c[3], FALSE, TRUE) :
        c \in {x \in Funcs \X Tags \X Kwargs : ~CallFails(x[1], x[3])}}
    \cup {TransformCall("transform_func", t_clean, [factor |-> 3], FALSE, TRUE),
          TransformCall("transform_func_with_kwarg", t_aggregate, NoKwargs, FALSE, TRUE),
          TransformCall("transform_func", t_clean, NoKwargs, TRUE, TRUE),
          TransformCall("transform_func", t_clean, NoKwargs, TRUE, FALSE),
          TransformCall("transform_func", t_clean, NoKwargs, FALSE, FALSE),
          [TransformCall("transform_func", t_clean, NoKwargs, TRUE, TRUE)
              EXCEPT !.uncommitted = TRUE],
          [TransformCall("transform_func", t_clean, NoKwargs, FALSE, TRUE)
              EXCEPT !.uncommitted = TRUE]}

\* SADInterfaceVersionManagerBase(): latest_version is <<>> for None, else <<version>>
SADInterfaceVersionManagerBase == [version_map |-> EmptyDict, latest_version |-> <<>>]

SadInit ==
    /\ sequences = <<>>
    /\ sads = <<>>
    /\ disk = EmptyDict
    /\ manager = SADInterfaceVersionManagerBase
    /\ call = SadCall("init", <<>>, [kind |-> None])
    /\ fs = FsDir({})
    /\ dd = NoTree
    /\ last = NoCall
    /\ saved = 0

SadNext ==
    \/ \E data \in InitialData, metadata \in MetadataArgs : SelfAwareData(data, metadata)
    \/ \E s \in DOMAIN sads, c \in TransformCalls :
          transform(s, c.transformer_func, c.tag, c.enforce_clean_git, c.in_repo,
                    c.uncommitted, c.now, c.kwargs)
    \/ \E s \in DOMAIN sads, data \in Data : rerun(s, data)
    \/ \E s \in DOMAIN sads : get_info(s)
    \/ \E file_path \in {n_a_csv, n_x_a} : load_from_path(file_path)

SadSpec == SadInit /\ [][SadNext]_vars


----------------------------------------------------------------------------
(* Saving and loading self-aware data: the interface versions, the         *)
(* registry of versions and the bundle directories.  A bundle is a         *)
(* directory of files, each file holding what its interface wrote.         *)

\* a save is made while fewer directories than this are under the parent path
MaxBundles == 2

s_sad_dir == <<"s", "a", "d", "_", "d", "i", "r">>
n_provenance_yaml == <<"p", "r", "o", "v", "e", "n", "a", "n", "c", "e", ".", "y", "a", "m", "l">>

Interfaces == {"SelfAwareDataInterface_v0", "SelfAwareDataInterface_v1"}

\* the class attribute version of an interface
version_of(interface) == IF interface = "SelfAwareDataInterface_v0" THEN 0 ELSE 1

\* the keys of file_component_interfaces
file_component_interfaces(interface) ==
    IF interface = "SelfAwareDataInterface_v0" THEN {s_data, s_func, s_code}
    ELSE {s_data, <<"s", "a", "d">>,
          <<"p", "r", "o", "v", "e", "n", "a", "n", "c", "e">>}

\* mutant: the latest version is the one registered last
_update_latest_version_last(latest_version, version) == <<version>>

_update_latest_version(latest_version, version) ==
    IF latest_version = <<>> THEN <<version>>
    ELSE IF version > latest_version[1] THEN <<version>>
    ELSE latest_version

\* mutant: a version is registered again
register_again(version_map, version) == FALSE

\* register raises ValueError: 'There is already an interface registered as version'
register_fails(version_map, version) == version \in DOMAIN version_map

register(interface) ==
    LET version == version_of(interface)
    IN  IF register_fails(manager.version_map, version)
        THEN /\ call' = SadCall("register", [interface |-> interface], SadRaised("ValueError"))
             /\ UNCHANGED <<sequences, sads, disk, manager, dir_vars>>
        ELSE /\ manager' = [version_map |-> DictSet(manager.version_map, version, interface),
                            latest_version |->
                                _update_latest_version(manager.latest_version, version)]
             /\ call' = SadCall("register", [interface |-> interface], [kind |-> None])
             /\ UNCHANGED <<sequences, sads, disk, dir_vars>>

\* what the interfaces write into a file
Content(interface, data) == [interface |-> interface, data |-> data]

\* a bundle directory after data_interface.save(sad.data, 'data', path): the testing
\* interface writes nothing
WithDataFile(files, data_file_type, data) ==
    LET file_type == parse_file_hint(data_file_type)
    IN  IF file_type = TestingExt THEN files
        ELSE DictSet(files, construct_file_path(s_data, file_type), Content(file_type, data))

\* Python: delimiter_char.join(file_name_components)
Join(components) ==
    IF Len(components) = 3
    THEN components[1] \o s_delim \o components[2] \o s_delim \o components[3]
    ELSE components[1] \o s_delim \o components[2] \o s_delim \o components[3]
            \o s_delim \o components[4]

\* metadata.get(key, '')
GetOrEmpty(metadata, key) == IF key \in DOMAIN metadata THEN metadata[key] ELSE <<>>

\* mutant: os.makedirs(path, exist_ok=True)
makedirs_exist_ok(files_on_disk, transform_dir_name) == FALSE

\* os.makedirs(new_transform_dir_path) raises FileExistsError
makedirs_fails(files_on_disk, transform_dir_name) == transform_dir_name \in DOMAIN files_on_disk

\* SelfAwareDataInterface_v0.save: the exception raised (None when it returns), the disk
\* it leaves and the path of the bundle
v0_save(files_on_disk, chain, file_name, now) ==
    LET tag == SplitRoot(file_name)
        data_file_type == SplitExt(file_name)
        info == TransformSequence_get_info(chain.steps)
        last_step == chain.steps[Len(chain.steps)]
        git_hash == IF Len(info) > 0 THEN GetOrEmpty(info[Len(info)], "git_hash") ELSE <<>>
        transformer_func == IF Len(info) > 0 THEN last_step.transformer_func ELSE None
        code == IF Len(info) > 0 THEN GetOrEmpty(info[Len(info)], "code") ELSE <<>>
        transform_dir_name == Join(<<s_sad_dir, generate_timestamp(now), git_hash, tag>>)
        with_data == WithDataFile(EmptyDict, data_file_type, chain.data)
        with_func == DictSet(with_data, n_func_dill, Content("dill", transformer_func))
        with_code == DictSet(with_func, n_code_txt, Content("txt", code))
    IN  IF Len(info) > 0 /\ "transformer_func" \notin DOMAIN last_step
        THEN [exc |-> "AttributeError", disk |-> files_on_disk]
        ELSE IF makedirs_fails(files_on_disk, transform_dir_name)
        THEN [exc |-> "FileExistsError", disk |-> files_on_disk]
        ELSE IF DataInterfaceManager_select_fails(data_file_type)
        THEN [exc |-> "ValueError", disk |-> DictSet(files_on_disk, transform_dir_name, EmptyDict)]
        ELSE [exc |-> None, disk |-> DictSet(files_on_disk, transform_dir_name, with_code),
              path |-> transform_dir_name]

n_sad_dill == <<"s", "a", "d", ".", "d", "i", "l", "l">>

\* SelfAwareDataInterface_v1.save
v1_save(files_on_disk, chain, file_name, now) ==
    LET tag == SplitRoot(file_name)
        data_file_type == SplitExt(file_name)
        transform_dir_name == Join(<<s_sad_dir, generate_timestamp(now), tag>>)
        provenance == [interface_version |-> 1,
                       transform_steps |-> TransformSequence_get_info(chain.steps)]
        with_data == WithDataFile(EmptyDict, data_file_type, chain.data)
        with_sad == DictSet(with_data, n_sad_dill, Content("dill", chain))
        with_provenance == DictSet(with_sad, n_provenance_yaml, Content("yaml", provenance))
    IN  IF makedirs_fails(files_on_disk, transform_dir_name)
        THEN [exc |-> "FileExistsError", disk |-> files_on_disk]
        ELSE IF DataInterfaceManager_select_fails(data_file_type)
        THEN [exc |-> "ValueError", disk |-> DictSet(files_on_disk, transform_dir_name, EmptyDict)]
        ELSE [exc |-> None,
              disk |-> DictSet(files_on_disk, transform_dir_name, with_provenance),
              path |-> transform_dir_name]

\* the interface_version given to save: <<>> for None, else <<version>>
Overrides == {<<>>, <<0>>, <<1>>, <<2>>}

\* mutant: an interface_version of 0 counts as none given
save_selects_latest_if_falsy(interface_version) ==
    interface_version = <<>> \/ interface_version = <<0>>

\* SelfAwareDataInterface.save takes the latest interface: interface_version is None
save_selects_latest(interface_version) == interface_version = <<>>

\* the exception raised by selecting the interface of a save, None when one is selected
save_selection_raises(interface_version) ==
    IF save_selects_latest(interface_version)
    THEN IF manager.latest_version = <<>> THEN "KeyError" ELSE None
    ELSE IF interface_version[1] \notin DOMAIN manager.version_map THEN "ValueError"
    ELSE None

save_selection(interface_version) ==
    IF save_selects_latest(interface_version)
    THEN manager.version_map[manager.latest_version[1]]
    ELSE manager.version_map[interface_version[1]]

\* an exception raised by the save or the load of an interface
SadRaisedBy(exc, interface) ==
    [kind |-> "raise", exc |-> exc, named |-> SadRaised(exc).named, interface |-> interface]

\* SelfAwareDataInterface.save(sad, parent_path, file_name, interface_version)
save(s, file_name, interface_version, now) ==
    LET args == [sad |-> s, file_name |-> file_name, interface_version |-> interface_version,
                 now |-> now]
        interface == save_selection(interface_version)
        chain == Chain(sads, sequences, s)
        done == IF interface = "SelfAwareDataInterface_v0"
                THEN v0_save(disk, chain, file_name, now)
                ELSE v1_save(disk, chain, file_name, now)
    IN  IF save_selection_raises(interface_version) # None
        THEN /\ call' = SadCall("save", args, SadRaised(save_selection_raises(interface_version)))
             /\ UNCHANGED <<sequences, sads, disk, manager, dir_vars>>
        ELSE /\ done.disk # disk => Cardinality(DOMAIN disk) < MaxBundles
             /\ disk' = done.disk
             /\ call' = SadCall("save", args,
                                IF done.exc # None THEN SadRaisedBy(done.exc, interface)
                                ELSE [kind |-> "path", path |-> done.path,
                                      interface |-> interface])
             /\ UNCHANGED <<sequences, sads, manager, dir_vars>>

\* mutant: a bundle without provenance.yaml is read as version 1
read_version_from_metadata_file_default_1(files) ==
    IF n_provenance_yaml \in DOMAIN files THEN files[n_provenance_yaml].data.interface_version
    ELSE 1

\* SADInterfaceVersionManagerBase.read_version_from_metadata_file, when it returns
read_version_from_metadata_file(files) ==
    IF n_provenance_yaml \in DOMAIN files THEN files[n_provenance_yaml].data.interface_version
    ELSE 0

\* read_version_from_metadata_file raises RuntimeError: the file names no version
read_version_fails(files) ==
    /\ n_provenance_yaml \in DOMAIN files
    /\ "interface_version" \notin DOMAIN files[n_provenance_yaml].data

\* SelfAwareDataInterfaceVersion._identify_sub_file: the files whose name contains key
_identify_sub_file(files, key) == {file_path \in DOMAIN files : StrIn(key, file_path)}

\* mutant: of several files for a key one is taken
_identify_transform_sub_files_fails_on_none(interface, files) ==
    \E key \in file_component_interfaces(interface) : _identify_sub_file(files, key) = {}

\* _identify_transform_sub_files raises ValueError: no file or several files for a key
_identify_transform_sub_files_fails(interface, files) ==
    \E key \in file_component_interfaces(interface) :
        Cardinality(_identify_sub_file(files, key)) # 1

SubFile(files, key) == CHOOSE file_path \in _identify_sub_file(files, key) : TRUE

\* the path of a file of a bundle, as glob gives it
PathOf(path, file) == <<"/", "t", "m", "p", "/">> \o path \o <<"/">> \o file

\* mutant: a name of more than four components is parsed
v0_parse_fails_short(path) == Len(StrSplit(path, s_delim)) < 3

\* SelfAwareDataInterface_v0._parse_transform_dir_name raises ValueError
v0_parse_fails(path) == Len(StrSplit(path, s_delim)) \notin {3, 4}

v0_parse_transform_dir_name(path) ==
    LET c == StrSplit(path, s_delim)
    IN  [timestamp |-> c[2], git_hash |-> c[3], tag |-> IF Len(c) = 3 THEN <<>> ELSE c[4]]

\* _parse_timestamp_for_printing: '{} {}:{}'.format(date, hours, minutes)
_parse_timestamp_for_printing(timestamp) ==
    LET date_time == StrSplit(timestamp, <<"_">>)
        time == StrSplit(date_time[2], <<"-">>)
    IN  date_time[1] \o <<" ">> \o time[1] \o <<":">> \o time[2]

\* _parse_timestamp_for_printing raises ValueError: the unpacking does not fit
_parse_timestamp_fails(timestamp) ==
    \/ Len(StrSplit(timestamp, <<"_">>)) # 2
    \/ Len(StrSplit(StrSplit(timestamp, <<"_">>)[2], <<"-">>)) # 3

\* SelfAwareDataInterface_v0.get_info
v0_get_info(path, files) ==
    LET parsed == v0_parse_transform_dir_name(path)
    IN  [timestamp |-> _parse_timestamp_for_printing(parsed.timestamp),
         git_hash |-> parsed.git_hash,
         tag |-> parsed.tag,
         data_type |-> StripDots(SplitExt(SubFile(files, s_data)))]

\* SelfAwareDataInterface_v0.load: the exception raised, or the data and the steps of
\* the SelfAwareData it returns
v0_load(path, files, load_function) ==
    LET data_file == SubFile(files, s_data)
        transformer_func == IF load_function THEN files[SubFile(files, s_func)].data ELSE None
        transformer_code == files[SubFile(files, s_code)].data
        info == v0_get_info(path, files)
        metadata == [code |-> transformer_code, timestamp |-> info.timestamp,
                     git_hash |-> info.git_hash, tag |-> info.tag,
                     data_type |-> info.data_type]
    IN  IF _identify_transform_sub_files_fails("SelfAwareDataInterface_v0", files)
        THEN [exc |-> "ValueError"]
        ELSE IF DataInterfaceManager_select_fails(PathOf(path, data_file))
        THEN [exc |-> "ValueError"]
        ELSE IF v0_parse_fails(path)
        THEN [exc |-> "ValueError", named |-> [dir_name |-> path]]
        ELSE IF _parse_timestamp_fails(v0_parse_transform_dir_name(path).timestamp)
        THEN [exc |-> "ValueError"]
        ELSE IF LiveTransformStep_fails(transformer_func) THEN [exc |-> "ValueError"]
        ELSE [exc |-> None, data |-> files[data_file].data,
              steps |-> <<LiveTransformStep(metadata, transformer_func)>>]

\* SelfAwareDataInterface_v1.load: with load_function the SelfAwareData that was dilled;
\* without, the data file and the entry 'sequence' of the provenance file
v1_load(path, files, load_function) ==
    LET data_file == SubFile(files, s_data)
        sad == files[SubFile(files, <<"s", "a", "d">>)].data
        metadata == files[SubFile(files, SplitRoot(n_provenance_yaml))].data
    IN  IF _identify_transform_sub_files_fails("SelfAwareDataInterface_v1", files)
        THEN [exc |-> "ValueError"]
        ELSE IF load_function THEN [exc |-> None, data |-> sad.data, steps |-> sad.steps]
        ELSE IF DataInterfaceManager_select_fails(PathOf(path, data_file))
        THEN [exc |-> "ValueError"]
        ELSE IF "sequence" \notin DOMAIN metadata THEN [exc |-> "KeyError"]
        ELSE IF _load_transform_seq_from_metadata_fails(
                    [type |-> "list", sequence |-> metadata.sequence])
        THEN [exc |-> "ValueError"]
        ELSE [exc |-> None, data |-> files[data_file].data,
              steps |-> build_from_metadata(metadata.sequence)]

\* SelfAwareDataInterface.load(path, load_function=...): select_version_for_path, then
\* the load of the interface selected
load(path, load_function) ==
    LET args == [path |-> path, load_function |-> load_function]
        files == disk[path]
        version == read_version_from_metadata_file(files)
        versioned_interface == manager.version_map[version]
        loaded == IF versioned_interface = "SelfAwareDataInterface_v0"
                  THEN v0_load(path, files, load_function)
                  ELSE v1_load(path, files, load_function)
    IN  IF read_version_fails(files)
        THEN /\ call' = SadCall("load", args, SadRaised("RuntimeError"))
             /\ UNCHANGED <<sequences, sads, disk, manager, dir_vars>>
        ELSE IF version \notin DOMAIN manager.version_map
        THEN /\ call' = SadCall("load", args,
                            SadRaisedNaming("RuntimeError",
                                [version |-> version,
                                 known_versions |-> DOMAIN manager.version_map]))
             /\ UNCHANGED <<sequences, sads, disk, manager, dir_vars>>
        ELSE IF loaded.exc # None
        THEN /\ call' = SadCall("load", args,
                            [SadRaisedBy(loaded.exc, versioned_interface) EXCEPT
                                !.named = IF "named" \in DOMAIN loaded THEN loaded.named
                                          ELSE @])
             /\ UNCHANGED <<sequences, sads, disk, manager, dir_vars>>
        ELSE /\ Len(sads) < MaxObjects
             /\ sequences' = Append(sequences, loaded.steps)
             /\ sads' = Append(sads, [data |-> loaded.data,
                                      transform_sequence |-> Len(sequences) + 1])
             /\ call' = SadCall("load", args,
                            [kind |-> "sad", sad |-> Len(sads) + 1,
                             interface |-> versioned_interface])
             /\ UNCHANGED <<disk, manager, dir_vars>>

RECURSIVE ChainOfCalls(_, _)
\* the chain a SelfAwareData of the data has after the transform calls, all returning
ChainOfCalls(data, calls) ==
    IF calls = <<>> THEN [data |-> data, steps |-> <<>>]
    ELSE LET before == ChainOfCalls(data, SubSeq(calls, 1, Len(calls) - 1))
             c == calls[Len(calls)]
             executed == TransformStep_execute(before.data, c.transformer_func, c.tag,
                                               c.enforce_clean_git, c.in_repo, c.now, c.kwargs)
         IN  [data |-> executed.data, steps |-> Append(before.steps, executed.step)]

\* the SelfAwareData the program holds when it starts to save and load: one that was
\* not transformed, one of one transform, one of the two transforms tagged clean and
\* aggregate, and one made of a static step
InitialChains ==
    { ChainOfCalls(1, <<>>),
      ChainOfCalls(1, <<TransformCall("transform_func", t_clean, NoKwargs, FALSE, TRUE)>>),
      ChainOfCalls(1, <<TransformCall("increment", t_clean, NoKwargs, FALSE, TRUE),
                        TransformCall("transform_func_with_kwarg", t_aggregate,
                                      [factor |-> 3], FALSE, TRUE)>>),
      [data |-> 1, steps |-> build_from_metadata(<<StaticMetadata>>)] }

\* what is under the parent path at the start: nothing; a bundle some other program
\* left, of an interface version this one does not have; or the bundles of an older
\* program, without provenance.yaml: one named with two components, one named without
\* a tag, one with two data files and no code file, one with two func files
InitialDisks ==
    LET v0_files == DictSet(DictSet(DictSet(EmptyDict, n_data_csv, Content(<<"c", "s", "v">>, 1)),
                                    n_func_dill, Content("dill", "increment")),
                            n_code_txt, Content("txt", getsource("increment")))
        two_data == DictSet(DictSet(DictSet(EmptyDict, n_data_csv, Content(<<"c", "s", "v">>, 1)),
                                    s_data \o <<".", "t", "x", "t">>, Content(<<"t", "x", "t">>, 1)),
                            n_func_dill, Content("dill", "increment"))
        two_func == DictSet(v0_files, s_func \o <<"2", ".", "d", "i", "l", "l">>,
                            Content("dill", "increment"))
    IN  { EmptyDict,
          DictSet(EmptyDict, Join(<<s_sad_dir, generate_timestamp(0), <<"f">>>>),
                  DictSet(EmptyDict, n_provenance_yaml,
                          Content("yaml", [interface_version |-> 2, transform_steps |-> <<>>]))),
          [n \in { s_sad_dir \o s_delim \o generate_timestamp(0),
                   Join(<<s_sad_dir, generate_timestamp(0), s_h1>>),
                   Join(<<s_sad_dir, generate_timestamp(0), s_h1, <<"x">>>>),
                   Join(<<s_sad_dir, generate_timestamp(0), s_h1, <<"y">>>>) } |->
              IF n = Join(<<s_sad_dir, generate_timestamp(0), s_h1, <<"x">>>>) THEN two_data
              ELSE IF n = Join(<<s_sad_dir, generate_timestamp(0), s_h1, <<"y">>>>) THEN two_func
              ELSE v0_files] }

\* the bundles of the older program are met by a program that holds untransformed data
CodecInit ==
    /\ \E chain \in InitialChains :
          /\ sequences = <<chain.steps>>
          /\ sads = <<[data |-> chain.data, transform_sequence |-> 1]>>
          /\ disk \in InitialDisks
          /\ Cardinality(DOMAIN disk) > 1 => chain.steps = <<>>
    /\ manager = SADInterfaceVersionManagerBase
    /\ call = SadCall("init", <<>>, [kind |-> None])
    /\ fs = FsDir({})
    /\ dd = NoTree
    /\ last = NoCall
    /\ saved = 0

CodecNext ==
    \/ \E interface \in Interfaces : register(interface)
    \/ \E s \in DOMAIN sads, interface_version \in Overrides, now \in Times :
          save(s, <<"s", ".", "c", "s", "v">>, interface_version, now)
    \/ \E s \in DOMAIN sads :
          save(s, <<"a", "_", "_", "b", ".", "c", "s", "v">>, <<0>>, 0)
    \/ \E path \in DOMAIN disk, load_function \in BOOLEAN : load(path, load_function)
    \/ \E s \in DOMAIN sads, data \in Data : rerun(s, data)
    \/ \E s \in DOMAIN sads : get_info(s)

CodecSpec == CodecInit /\ [][CodecNext]_vars

----------------------------------------------------------------------------
(* Properties of self-aware data *)

Steps(s) == Chain(sads, sequences, s).steps

AllLive(steps) == \A i \in DOMAIN steps : steps[i].cls = "LiveTransformStep"

InfoKeys == {"timestamp", "git_hash", "tag", "kwargs", "code"}

\* C13: a transform that returns gives a new chain whose data is the callable applied to
\* the old data with the keywords of the call and whose steps are the old steps followed
\* by one live step recording the tag and the keywords of the call; get_info on a chain
\* of live steps yields one entry per step, in order, with the step's tag and keywords
\* and exactly the keys timestamp, git_hash, tag, kwargs and code.
C13_TransformAppendsOneLiveStep ==
    [][/\ (call'.op = "transform" /\ call'.ret.kind = "sad") =>
             LET old == Chain(sads, sequences, call'.args.sad)
                 new == Chain(sads', sequences', call'.ret.sad)
                 added == new.steps[Len(new.steps)]
             IN  /\ call'.ret.sad \notin DOMAIN sads
                 /\ new.data = CallResult(call'.args.transformer_func, old.data,
                                          call'.args.kwargs)
                 /\ Len(new.steps) = Len(old.steps) + 1
                 /\ SubSeq(new.steps, 1, Len(old.steps)) = old.steps
                 /\ added.cls = "LiveTransformStep"
                 /\ added.transformer_func = call'.args.transformer_func
                 /\ added.metadata.tag = call'.args.tag
                 /\ added.metadata.kwargs = call'.args.kwargs
       /\ (call'.op = "get_info" /\ AllLive(Chain(sads', sequences', call'.args.sad).steps)) =>
             LET steps == Chain(sads', sequences', call'.args.sad).steps
                 info == call'.ret.info
             IN  /\ Len(info) = Len(steps)
                 /\ \A i \in DOMAIN info :
                       /\ DOMAIN info[i] = InfoKeys
                       /\ info[i].tag = steps[i].metadata.tag
                       /\ info[i].kwargs = steps[i].metadata.kwargs
                       /\ info[i].code = getsource(steps[i].transformer_func)]_vars

\* get_info on the chain of two transforms, the second with a keyword
C13_Witness ==
    /\ call.op = "get_info"
    /\ AllLive(Steps(call.args.sad))
    /\ Len(call.ret.info) = 2
    /\ call.ret.info[1].tag = t_clean
    /\ call.ret.info[2].tag = t_aggregate
    /\ call.ret.info[2].kwargs = [factor |-> 3]

RECURSIVE C14_Composed(_, _)
\* the callables of the steps applied by hand to x, each with the keywords of its step:
\* the last one applied to what the ones before it give
C14_Composed(steps, x) ==
    IF steps = <<>> THEN SadValue(x)
    ELSE LET before == C14_Composed(SubSeq(steps, 1, Len(steps) - 1), x)
             step == steps[Len(steps)]
         IN  IF before.kind = "raise" THEN before
             ELSE IF CallFails(step.transformer_func, step.metadata.kwargs)
                  THEN SadRaised("TypeError")
             ELSE SadValue(CallResult(step.transformer_func, before.data,
                                      step.metadata.kwargs))

\* C14: rerun(X) on a chain of one or more live steps gives what applying the callables
\* of the steps by hand gives, in chain order and each with the keywords of its step.
C14_RerunIsComposition ==
    (call.op = "rerun" /\ Steps(call.args.sad) # <<>> /\ AllLive(Steps(call.args.sad)))
        => call.ret = C14_Composed(Steps(call.args.sad), call.args.data)

\* a rerun, on data other than the chain's own input, of two live steps that do not
\* commute, one of them with a keyword
C14_Witness ==
    /\ call.op = "rerun"
    /\ call.args.data = 2
    /\ call.ret.kind = "value"
    /\ LET steps == Steps(call.args.sad)
       IN  /\ Len(steps) = 2
           /\ AllLive(steps)
           /\ steps[1].transformer_func = "increment"
           /\ steps[2].transformer_func = "transform_func_with_kwarg"

\* C15: rerun on a chain with a step that has no callable raises an error that names
\* the tag of that step and gives no value, whatever the other steps are.
C15_RerunRefusesStepsWithoutCallable ==
    call.op = "rerun" =>
        \A i \in DOMAIN Steps(call.args.sad) :
            Steps(call.args.sad)[i].cls # "LiveTransformStep" =>
                /\ call.ret.kind = "raise"
                /\ "tag" \in DOMAIN call.ret.named
                /\ call.ret.named.tag = Steps(call.args.sad)[i].metadata.tag

\* C16: rerun on a chain without steps raises the error of a chain that cannot be run
\* again; it does not hand the data back.
C16_RerunOfEmptyChainRaises ==
    (call.op = "rerun" /\ Steps(call.args.sad) = <<>>)
        => call.ret = SadRaised("RuntimeError")

C16_Witness ==
    /\ call.op = "rerun"
    /\ Steps(call.args.sad) = <<>>
    /\ call.ret.kind = "raise"
    /\ Len(sads) > 1


\* a save returned the path of a bundle and the next call loads that bundle
LoadsWhatWasSaved ==
    /\ call.op = "save"
    /\ call.ret.kind = "path"
    /\ call'.op = "load"
    /\ call'.args.path = call.ret.path

StepTag(step) == GetOrEmpty(step.metadata, "tag")
StepCode(step) == GetOrEmpty(step.metadata, "code")

\* C17: when the chain of the transforms tagged clean and aggregate is saved, at any
\* registered version, and loaded with load_function false, the load returns a chain
\* whose get_info has two entries with the saved tags and keywords in order, whose steps
\* hold no callable, and whose rerun raises.
C17_LoadWithoutFunctionKeepsRecords ==
    [][(/\ LoadsWhatWasSaved
        /\ ~call'.args.load_function
        /\ Len(Steps(call.args.sad)) = 2
        /\ StepTag(Steps(call.args.sad)[1]) = t_clean
        /\ StepTag(Steps(call.args.sad)[2]) = t_aggregate)
       => /\ call'.ret.kind = "sad"
          /\ LET stored == Steps(call.args.sad)
                 loaded == Chain(sads', sequences', call'.ret.sad).steps
                 info == TransformSequence_get_info(loaded)
             IN  /\ Len(info) = 2
                 /\ \A i \in 1..2 :
                       /\ GetOrEmpty(info[i], "tag") = StepTag(stored[i])
                       /\ step_kwargs(loaded[i]) = step_kwargs(stored[i])
                       /\ "transformer_func" \notin DOMAIN loaded[i]
                 /\ \A data \in Data : TransformSequence_rerun(loaded, data).kind = "raise"]_vars

\* C18: when a chain is saved, at any registered version, and the bundle is loaded, the
\* load returns a chain with the saved data and as many steps as were saved, each with
\* the tag, the keywords and the code of the saved step at its place.
C18_RoundTrip ==
    [][LoadsWhatWasSaved
       => /\ call'.ret.kind = "sad"
          /\ LET stored == Chain(sads, sequences, call.args.sad)
                 loaded == Chain(sads', sequences', call'.ret.sad)
             IN  /\ loaded.data = stored.data
                 /\ Len(loaded.steps) = Len(stored.steps)
                 /\ \A i \in DOMAIN stored.steps :
                       /\ StepTag(loaded.steps[i]) = StepTag(stored.steps[i])
                       /\ step_kwargs(loaded.steps[i]) = step_kwargs(stored.steps[i])
                       /\ StepCode(loaded.steps[i]) = StepCode(stored.steps[i])]_vars

MaxOf(S) == CHOOSE m \in S : \A x \in S : x <= m

Registered(registry) == DOMAIN registry.version_map

\* the files of a bundle written by an interface for a csv file name
BundleFilesOf(interface) ==
    IF version_of(interface) = 0 THEN {n_data_csv, n_func_dill, n_code_txt}
    ELSE {n_data_csv, n_sad_dill, n_provenance_yaml}

\* the save of this interface, and of no other, ran in the call
SavedWith(interface) ==
    /\ "interface" \in DOMAIN call'.ret
    /\ call'.ret.interface = interface
    /\ call'.ret.kind = "path" =>
          /\ call'.ret.path \in (DOMAIN disk') \ (DOMAIN disk)
          /\ DOMAIN disk'[call'.ret.path] = BundleFilesOf(interface)

\* C19: once an interface is registered, latest_version is the greatest registered
\* version and is registered; a save without interface_version runs the save of the
\* interface registered under latest_version, a save with a registered interface_version
\* runs the save of the interface registered under it, and a save with an
\* interface_version that is not registered raises and leaves the disk as it was.
C19_SaveUsesRegisteredVersion ==
    [][/\ Registered(manager') # {} =>
             manager'.latest_version = <<MaxOf(Registered(manager'))>>
       /\ (call'.op = "save" /\ Registered(manager) # {}) =>
             LET interface_version == call'.args.interface_version
             IN  IF interface_version = <<>>
                 THEN SavedWith(manager.version_map[MaxOf(Registered(manager))])
                 ELSE IF interface_version[1] \in Registered(manager)
                 THEN /\ SavedWith(manager.version_map[interface_version[1]])
                      /\ version_of(manager.version_map[interface_version[1]])
                            = interface_version[1]
                 ELSE /\ call'.ret.kind = "raise"
                      /\ "interface" \notin DOMAIN call'.ret
                      /\ disk' = disk]_vars

\* a save with interface_version 0 wrote a bundle while version 1 is the latest
C19_Witness ==
    /\ call.op = "save"
    /\ call.args.interface_version = <<0>>
    /\ Registered(manager) = {0, 1}
    /\ call.ret.kind = "path"

\* C20: load runs the load of the interface registered under the version the bundle's
\* provenance.yaml names, and under version 0 for a bundle without that file; when that
\* version is not registered it raises RuntimeError naming the version and the
\* registered versions, and the load of no interface runs.
C20_LoadDispatchesOnVersion ==
    call.op = "load" =>
        LET files == disk[call.args.path]
            marked == n_provenance_yaml \in DOMAIN files
            version == IF marked THEN files[n_provenance_yaml].data.interface_version ELSE 0
        IN  (marked => "interface_version" \in DOMAIN files[n_provenance_yaml].data) =>
                IF version \in Registered(manager)
                THEN /\ "interface" \in DOMAIN call.ret
                     /\ call.ret.interface = manager.version_map[version]
                     /\ version_of(call.ret.interface) = version
                ELSE call.ret = SadRaisedNaming("RuntimeError",
                                    [version |-> version,
                                     known_versions |-> Registered(manager)])

\* the load of a bundle of version 2 raised with versions 0 and 1 registered, and a
\* bundle without provenance.yaml is on the disk
C20_Witness ==
    /\ call.op = "load"
    /\ call.ret.kind = "raise"
    /\ call.ret.named = [version |-> 2, known_versions |-> {0, 1}]
    /\ \E path \in DOMAIN disk : n_provenance_yaml \notin DOMAIN disk[path]


\* the load of version 0 ran on a bundle whose three files are there once each
V0LoadOfWholeBundle ==
    /\ call.op = "load"
    /\ "interface" \in DOMAIN call.ret
    /\ version_of(call.ret.interface) = 0
    /\ \A key \in {s_data, s_func, s_code} :
          Cardinality({f \in DOMAIN disk[call.args.path] : StrIn(key, f)}) = 1

\* C21: the load of version 0 splits the directory name on '__'.  Of three components
\* it takes the second as timestamp, the third as git hash and the empty tag; of four
\* it takes the fourth as tag, and these are the timestamp (as printed), the git hash
\* and the tag of the step of the SelfAwareData it returns; of any other number it
\* raises ValueError naming the directory name.
C21_V0NameParsing ==
    V0LoadOfWholeBundle =>
        LET dir_name == call.args.path
            components == StrSplit(dir_name, s_delim)
        IN  IF Len(components) \in {3, 4}
            THEN /\ call.ret.kind = "raise" => call.ret.named # [dir_name |-> dir_name]
                 /\ call.ret.kind = "sad" =>
                       LET metadata == Steps(call.ret.sad)[1].metadata
                       IN  /\ metadata.timestamp = _parse_timestamp_for_printing(components[2])
                           /\ metadata.git_hash = components[3]
                           /\ metadata.tag = IF Len(components) = 3 THEN <<>>
                                             ELSE components[4]
            ELSE /\ call.ret.kind = "raise"
                 /\ call.ret.exc = "ValueError"
                 /\ call.ret.named = [dir_name |-> dir_name]

\* loads of version 0 met a name of two components and a name of five
C21_Witness ==
    /\ V0LoadOfWholeBundle
    /\ Len(StrSplit(call.args.path, s_delim)) = 5
    /\ call.ret.kind = "raise"
    /\ \E path \in DOMAIN disk : Len(StrSplit(path, s_delim)) = 5


\* the last step of a chain holds no callable, or the chain has no step
WithoutCallable(steps) ==
    steps = <<>> \/ "transformer_func" \notin DOMAIN steps[Len(steps)]

\* C22: the save of a chain without steps, or whose last step holds no callable, at a
\* registered version and under a name that is not taken, returns the path of a new
\* directory that holds three files.
C22_SaveWithoutCallable ==
    [][(/\ call'.op = "save"
        /\ "interface" \in DOMAIN call'.ret
        /\ WithoutCallable(Steps(call'.args.sad))
        /\ ~(call'.ret.kind = "raise" /\ call'.ret.exc = "FileExistsError"))
       => /\ call'.ret.kind = "path"
          /\ call'.ret.path \in (DOMAIN disk') \ (DOMAIN disk)
          /\ Cardinality(DOMAIN disk'[call'.ret.path]) = 3]_vars


\* C23: load_from_path of a file of a registered type returns a SelfAwareData whose
\* sequence has one step, which records the path of the file.
C23_LoadFromPathMakesSourceChain ==
    (/\ call.op = "load_from_path"
     /\ ~DataInterfaceManager_select_fails(call.args.file_path))
    => /\ call.ret.kind = "sad"
       /\ Len(Steps(call.ret.sad)) = 1
       /\ Steps(call.ret.sad)[1].file_path = call.args.file_path


\* C24: building a DataDirectory at a path that does not exist raises.
C24_BuildOfMissingPathRaises ==
    (last.op = "build" /\ ~FsAt(fs, last.arg).found) => last.ret.kind = "raise"


\* a transform whose keywords fit the callable, while no clean state of git is there
\* for it: it is outside a repository, or its repository has uncommitted changes
TransformWithoutCleanGit ==
    /\ call'.op = "transform"
    /\ ~CallFails(call'.args.transformer_func, call'.args.kwargs)
    /\ ~call'.args.in_repo \/ call'.args.uncommitted

\* C25: without a clean state of git, a transform with enforce_clean_git raises
\* RuntimeError and makes no SelfAwareData and no step; the same transform without
\* enforce_clean_git returns a SelfAwareData whose last step has the git hash
\* 'no_git_hash'.
C25_EnforceCleanGit ==
    [][TransformWithoutCleanGit =>
          IF call'.args.enforce_clean_git
          THEN /\ call'.ret.kind = "raise"
               /\ call'.ret.exc = "RuntimeError"
               /\ sads' = sads
               /\ sequences' = sequences
          ELSE /\ call'.ret.kind = "sad"
               /\ LET steps == Chain(sads', sequences', call'.ret.sad).steps
                  IN  steps[Len(steps)].metadata.git_hash = s_no_git_hash]_vars


\* the numbers of files of the bundle of the last load whose names contain a key of
\* the interface that loaded
ComponentMatches ==
    { Cardinality({file_path \in DOMAIN disk[call.args.path] : StrIn(key, file_path)}) :
        key \in file_component_interfaces(call.ret.interface) }

\* C26: a load that reached an interface raises ValueError when some key of
\* file_component_interfaces has no file or several files of the bundle with the key
\* in their name, and it returns a SelfAwareData only when each key has one such file.
C26_LoadNeedsOneFilePerComponent ==
    (call.op = "load" /\ "interface" \in DOMAIN call.ret) =>
        /\ ComponentMatches # {1} => (call.ret.kind = "raise" /\ call.ret.exc = "ValueError")
        /\ call.ret.kind = "sad" => ComponentMatches = {1}

C26_Witness ==
    /\ call.op = "load"
    /\ "interface" \in DOMAIN call.ret
    /\ call.ret.kind = "raise"
    /\ 2 \in ComponentMatches


\* the directory name the last save derives: the prefix, the time, for version 0 the
\* git hash of the last step, and the file name without its extension
DerivedName ==
    LET steps == Steps(call'.args.sad)
        git_hash == IF steps # <<>> /\ "git_hash" \in DOMAIN steps[Len(steps)].metadata
                    THEN steps[Len(steps)].metadata.git_hash ELSE <<>>
    IN  s_sad_dir \o s_delim \o generate_timestamp(call'.args.now) \o s_delim
            \o (IF version_of(call'.ret.interface) = 0 THEN git_hash \o s_delim ELSE <<>>)
            \o SplitRoot(call'.args.file_name)

\* C27: a save that derives the name of a directory that is under the parent path
\* raises FileExistsError and leaves every directory and file there as it was; and no
\* save changes or removes a directory that was there.
C27_SaveOfTakenNameRaises ==
    [][call'.op = "save" =>
          /\ \A path \in DOMAIN disk : path \in DOMAIN disk' /\ disk'[path] = disk[path]
          /\ (/\ "interface" \in DOMAIN call'.ret
              /\ ~(call'.ret.kind = "raise" /\ call'.ret.exc = "AttributeError")
              /\ DerivedName \in DOMAIN disk)
             => /\ call'.ret.kind = "raise"
                /\ call'.ret.exc = "FileExistsError"
                /\ disk' = disk]_vars

C27_Witness ==
    /\ call.op = "save"
    /\ call.ret.kind = "raise"
    /\ call.ret.exc = "FileExistsError"
    /\ disk # EmptyDict


\* C28: registering an interface whose version is registered raises ValueError and
\* leaves version_map and latest_version as they were.
C28_RegisterOfTakenVersionRaises ==
    [][(/\ call'.op = "register"
        /\ version_of(call'.args.interface) \in DOMAIN manager.version_map)
       => /\ call'.ret.kind = "raise"
          /\ call'.ret.exc = "ValueError"
          /\ manager'.version_map = manager.version_map
          /\ manager'.latest_version = manager.latest_version]_vars

C28_Witness ==
    /\ call.op = "register"
    /\ call.ret.kind = "raise"
    /\ manager.latest_version = <<1>>
    /\ call.args.interface = "SelfAwareDataInterface_v0"


\* the git hash a save at version 0 puts into the name: that of the last step, or ''
SavedGitHash(steps) ==
    IF steps # <<>> /\ "git_hash" \in DOMAIN steps[Len(steps)].metadata
    THEN steps[Len(steps)].metadata.git_hash ELSE <<>>

\* C29: the name of the directory a save at version 0 returns is parsed by
\* _parse_transform_dir_name of version 0, which gives back the timestamp, the git hash
\* and the tag of the save, whatever the git hash and the tag are.
C29_V0NameRoundTrip ==
    [][(/\ call'.op = "save"
        /\ call'.ret.kind = "path"
        /\ call'.ret.interface = "SelfAwareDataInterface_v0")
       => /\ ~v0_parse_fails(call'.ret.path)
          /\ v0_parse_transform_dir_name(call'.ret.path) =
                [timestamp |-> generate_timestamp(call'.args.now),
                 git_hash |-> SavedGitHash(Steps(call'.args.sad)),
                 tag |-> SplitRoot(call'.args.file_name)]]_vars


\* the names and the classes of the children of a node, by key
ChildrenShape(node) ==
    [k \in DOMAIN node.contents |-> <<node.contents[k].name, node.contents[k].cls>>]

\* C30: in every reachable state, also after saves, building each folder of the tree
\* again from its path does not raise and gives children of the same keys, names and
\* classes as the folder has in memory.
C30_TreeMatchesFreshScan ==
    \A p \in Folders :
        LET self == NodeAt(dd, p)
            at == FsAt(fs, Tail(self.path))
        IN  /\ at.found
            /\ ~ScanFails(at.node, self.path)
            /\ ChildrenShape(Scan(at.node, self.path)) = ChildrenShape(self)

====
